---- MODULE Spec2Model ----
(***************************************************************************)
(* Model of the relayout driver (typeset), the stability provider and the  *)
(* introspector of src/model/typeset.rs, and of the span encoding of       *)
(* src/syntax/span.rs.                                                     *)
(*                                                                         *)
(* One typeset call is a process with the positions                        *)
(*   "loop"   : at the head of the loop (line 27), about to call layout    *)
(*   "layout" : inside the external layout routine (line 35), which may    *)
(*              call Vt::identify and Vt::locate any number of times       *)
(*   "done"   : returned Ok(document)                                      *)
(*   "failed" : returned the layout error                                  *)
(***************************************************************************)
EXTENDS Integers, Sequences, FiniteSets, TLC

(***************************************************************************)
(* Bounds of the model                                                     *)
(***************************************************************************)
\* identify calls per pass in the driver specification
MaxIdentify == 1
\* identify calls per pass in the provider specification
MaxIdentifyProv == 4
\* identify calls per pass in the call-site specification
MaxIdentifyConc == 3

\* call-site fingerprints (values of hash128(key))
Fingerprints == {1, 2}

(***************************************************************************)
(* Geometry (crate::geom): points and affine transforms over integers      *)
(***************************************************************************)
Point(x, y) == <<x, y>>

Transform(sx, ky, kx, sy, tx, ty) ==
    [sx |-> sx, ky |-> ky, kx |-> kx, sy |-> sy, tx |-> tx, ty |-> ty]

TransformIdentity == Transform(1, 0, 0, 1, 0, 0)

TransformTranslate(tx, ty) == Transform(1, 0, 0, 1, tx, ty)

\* self.pre_concat(prev): the transform that applies prev first, then self
pre_concat(self, prev) ==
    Transform(self.sx * prev.sx + self.kx * prev.ky,
              self.ky * prev.sx + self.sy * prev.ky,
              self.sx * prev.kx + self.kx * prev.sy,
              self.ky * prev.kx + self.sy * prev.sy,
              self.sx * prev.tx + self.kx * prev.ty + self.tx,
              self.ky * prev.tx + self.sy * prev.ty + self.ty)

\* pos.transform(ts)
PointTransform(pos, ts) ==
    Point(ts.sx * pos[1] + ts.kx * pos[2] + ts.tx,
          ts.ky * pos[1] + ts.sy * pos[2] + ts.ty)

(***************************************************************************)
(* Content, selectors, stable ids, frames                                  *)
(***************************************************************************)
\* A content value: its element kind and the value of its "loc" field,
\* <<>> while the field is absent, <<page, x, y>> once it is attached.
Content(kind) == [kind |-> kind, loc |-> <<>>]

\* Location { page, pos }.encode()
LocationEncode(page, pos) == <<page, pos[1], pos[2]>>

\* content.push_field("loc", value): sets the field, replacing an old value
push_field_loc(content, value) == [content EXCEPT !.loc = value]

\* A selector is the set of element kinds it matches.
SelectorMatches(selector, target) == target.kind \in selector

StableId(hash, slot) == <<hash, slot>>

\* Frame elements; a frame is a sequence of [pos, element].
ElementGroup(frame, transform) ==
    [type |-> "group", id |-> StableId(0, 0), content |-> Content(0),
     transform |-> transform, frame |-> frame]

ElementMetaNode(id, content) ==
    [type |-> "node", id |-> id, content |-> content,
     transform |-> TransformIdentity, frame |-> <<>>]

\* any other element (text, shape, image, other metadata)
ElementOther ==
    [type |-> "other", id |-> StableId(0, 0), content |-> Content(0),
     transform |-> TransformIdentity, frame |-> <<>>]

At(pos, element) == [pos |-> pos, element |-> element]

\* hash128 of a located list Vec<(StableId, &Content)>: the digest of the
\* stream the list feeds to the hasher (length, then every field of every
\* entry in order); distinct streams have distinct digests.
RECURSIVE HashStream(_)
HashStream(list) ==
    IF list = <<>> THEN <<>>
    ELSE LET e == Head(list)
         IN <<e.id[1], e.id[2], e.content.kind, Len(e.content.loc)>>
              \o e.content.loc \o HashStream(Tail(list))

hash128(list) == <<Len(list)>> \o HashStream(list)

(***************************************************************************)
(* The documents the layout routine may produce                            *)
(***************************************************************************)
IdA == StableId(1, 0)
IdB == StableId(1, 1)
IdC == StableId(2, 0)

Shear == Transform(2, 0, 1, 1, 0, 0)

\* one page without identity-tagged content
DocPlain == << << At(Point(0, 0), ElementOther) >> >>

\* one page, A before B
DocAB == << << At(Point(1, 1), ElementMetaNode(IdA, Content(1))),
               At(Point(2, 1), ElementMetaNode(IdB, Content(2))) >> >>

\* the same placed nodes, B before A
DocBA == << << At(Point(2, 1), ElementMetaNode(IdB, Content(2))),
               At(Point(1, 1), ElementMetaNode(IdA, Content(1))) >> >>

\* A alone on the second page
DocLate == << << At(Point(0, 0), ElementOther) >>,
              << At(Point(1, 1), ElementMetaNode(IdA, Content(1))) >> >>

\* nested groups, a transform, and ids that occur several times
DocNested ==
    << << At(Point(1, 0), ElementGroup(
              << At(Point(1, 1), ElementMetaNode(IdA, Content(1))),
                 At(Point(0, 1), ElementGroup(
                     << At(Point(0, 0), ElementMetaNode(IdC, Content(1))),
                        At(Point(1, 0), ElementMetaNode(IdA, Content(2))) >>,
                     TransformIdentity)) >>,
              Shear)),
          At(Point(0, 2), ElementMetaNode(IdB, Content(2))) >>,
       << At(Point(0, 0), ElementOther),
          At(Point(3, 3), ElementMetaNode(IdB, Content(1))),
          At(Point(1, 2), ElementMetaNode(IdC, Content(2))) >> >>

Docs == {DocPlain, DocAB, DocBA, DocLate, DocNested}

DocsProv == {DocAB, DocBA}

Selectors == {{1}, {1, 2}}

SelectorsProv == {{1, 2}}

(***************************************************************************)
(* Span (src/syntax/span.rs).  A u64 is the function from its 64 bit       *)
(* positions (0 the least significant) to 0 or 1, a u16 the same over 16   *)
(* positions, so that shifts, masks and comparisons keep their width.      *)
(***************************************************************************)
\* the u64 whose set bits are the positions in S
U64(S) == [i \in 0..63 |-> IF i \in S THEN 1 ELSE 0]

\* the u16 whose set bits are the positions in S
U16(S) == [i \in 0..15 |-> IF i \in S THEN 1 ELSE 0]

\* id.into_u16() as u64: zero extension
U16AsU64(x) == [i \in 0..63 |-> IF i <= 15 THEN x[i] ELSE 0]

\* v as u16: truncation to the low 16 bits
U64AsU16(x) == [i \in 0..15 |-> x[i]]

\* x << k and x >> k on u64
U64Shl(x, k) == [i \in 0..63 |-> IF i >= k THEN x[i - k] ELSE 0]
U64Shr(x, k) == [i \in 0..63 |-> IF i + k <= 63 THEN x[i + k] ELSE 0]

\* x | y and x & y
U64Or(x, y) == [i \in 0..63 |-> IF x[i] = 1 \/ y[i] = 1 THEN 1 ELSE 0]
U64And(x, y) == [i \in 0..63 |-> IF x[i] = 1 /\ y[i] = 1 THEN 1 ELSE 0]

\* x - 1 (wrapping at zero)
U64Dec(x) ==
    IF \A i \in 0..63 : x[i] = 0 THEN [i \in 0..63 |-> 1]
    ELSE LET low == CHOOSE i \in 0..63 :
                       x[i] = 1 /\ \A j \in 0..(i - 1) : x[j] = 0
         IN [i \in 0..63 |-> IF i < low THEN 1
                             ELSE IF i = low THEN 0 ELSE x[i]]

\* x < y and x <= y, unsigned
U64Lt(x, y) ==
    \E i \in 0..63 :
        /\ x[i] = 0 /\ y[i] = 1
        /\ \A j \in (i + 1)..63 : x[j] = y[j]

U64Le(x, y) == x = y \/ U64Lt(x, y)

\* Span::BITS
BITS == 48

\* Span::DETACHED
DETACHED == U64({0})

\* Span::FULL.start and Span::FULL.end
SpanFullStart == U64({1})
SpanFullEnd == U64Shl(U64({0}), BITS)

\* to_non_zero: the NonZeroU64, or the panic for zero
to_non_zero(v) ==
    IF v = U64({}) THEN [tag |-> "panic", bits |-> U64({})]
    ELSE [tag |-> "ok", bits |-> v]

\* variant: the upper end of the range is accepted
SpanNewAssertInclusive(number) ==
    U64Le(SpanFullStart, number) /\ U64Le(number, SpanFullEnd)

\* the assertion of Span::new (lines 79-82)
SpanNewAssert(number) ==
    U64Le(SpanFullStart, number) /\ U64Lt(number, SpanFullEnd)

\* Span::new: the span, or the panic of the assertion
SpanNew(id, number) ==
    IF ~SpanNewAssert(number) THEN [tag |-> "panic", bits |-> U64({})]
    ELSE to_non_zero(U64Or(U64Shl(U16AsU64(id), BITS), number))

\* variant: the detached span is encoded as 2
SpanDetachedTwo == to_non_zero(U64({1}))

\* Span::detached
SpanDetached == to_non_zero(DETACHED)

\* Span::source, on the bits of a span
SpanSource(bits) == U64AsU16(U64Shr(bits, BITS))

\* variant: the mask is one bit short
SpanNumberShortMask(bits) ==
    U64And(bits, U64Dec(U64Shl(U64({0}), BITS - 1)))

\* Span::number, on the bits of a span
SpanNumber(bits) == U64And(bits, U64Dec(U64Shl(U64({0}), BITS)))

\* source ids and numbers given to Span::new
SpanIds == {U16(S) : S \in SUBSET {0, 2, 15}}

SpanNumbers == {U64(S) : S \in SUBSET {0, 1, 3, 47, 48, 63}}
                  \cup {U64(0..47), U64(0..63)}

(***************************************************************************)
(* State                                                                   *)
(***************************************************************************)
VARIABLES
    pc,          \* position of the typeset call
    iter,        \* typeset: iter
    document,    \* typeset: document (<<>> while unassigned)
    provider,    \* StabilityProvider.0 of the current pass
    nodes,       \* Introspector.nodes
    queries,     \* Introspector.queries
    ret,         \* value returned by typeset
    layoutCalls, \* number of layout invocations so far
    layoutErrs,  \* number of layout invocations that failed
    layoutDoc,   \* document produced by the latest layout invocation
    updateCalls, \* number of Introspector::update calls so far
    updRet,      \* results of the update calls, in call order
    updDoc,      \* document passed to the latest update
    updQueries,  \* query table taken by the latest update
    updPrevNodes,\* node index the latest update replaced
    located,     \* selectors located during the current pass
    lastLocate,  \* selector and result of the latest locate of the pass
    fpLog,       \* fingerprints passed to identify in the current pass
    idLog,       \* StableIds returned by identify in the current pass
    refFpLog,    \* fpLog of a remembered earlier pass
    refIdLog,    \* idLog of that pass
    span,        \* a caller of Span: its arguments and what it got back
    sites        \* the layout call sites that call identify concurrently

vars == <<pc, iter, document, provider, nodes, queries, ret, layoutCalls,
          layoutErrs, layoutDoc, updateCalls, updRet, updDoc, updQueries, updPrevNodes, located,
          lastLocate, fpLog, idLog, refFpLog, refIdLog, span, sites>>

typesetVars == <<pc, iter, document, provider, nodes, queries, ret,
                 layoutCalls, layoutErrs, layoutDoc, updateCalls, updRet,
                 updDoc, updQueries, updPrevNodes, located, lastLocate,
                 fpLog, idLog, refFpLog, refIdLog, sites>>

driverVars == <<iter, document, ret, layoutCalls, layoutErrs, layoutDoc>>
introVars == <<nodes, queries>>
updVars == <<updateCalls, updRet, updDoc, updQueries, updPrevNodes>>
idVars == <<provider, fpLog, idLog>>
refVars == <<refFpLog, refIdLog>>

NoLocate == [valid |-> FALSE, selector |-> {}, result |-> <<>>]
NoReturn == [tag |-> "none", doc |-> <<>>]

\* the layout call sites that may be inside identify at the same time
CallSites == {1, 2}

\* a call site outside identify that has completed done calls
SiteOut(done) == [pc |-> "out", hash |-> 0, slot |-> 0, done |-> done]

\* a caller of Span that has not called anything yet
SpanCaller(id, number) ==
    [pc |-> "args", id |-> id, number |-> number,
     new |-> [tag |-> "none", bits |-> U64({})],
     detached |-> [tag |-> "none", bits |-> U64({})],
     source |-> U16({}), sourceRead |-> FALSE,
     num |-> U64({}), numRead |-> FALSE]

(***************************************************************************)
(* StabilityProvider                                                       *)
(***************************************************************************)
\* StabilityProvider::new
StabilityProviderNew == <<>>

\* self.0.entry(hash).or_default(): the slot stored for hash, 0 when unseen
EntryOrDefault(map, hash) == IF hash \in DOMAIN map THEN map[hash] ELSE 0

\* variant: one counter shared by all fingerprints
identifySharedCounter(map, hash) ==
    LET slot == EntryOrDefault(map, 0)
    IN [id  |-> StableId(hash, slot),
        map |-> [k \in {0} |-> slot + 1]]

\* StabilityProvider::identify: the returned id and the map after the call
identify(map, hash) ==
    LET slot == EntryOrDefault(map, hash)
    IN [id  |-> StableId(hash, slot),
        map |-> [k \in (DOMAIN map) \cup {hash} |->
                    IF k = hash THEN slot + 1 ELSE map[k]]]

(***************************************************************************)
(* Introspector                                                            *)
(***************************************************************************)
\* Introspector::new
IntrospectorNewNodes == <<>>
IntrospectorNewQueries == <<>>

\* self.nodes.iter().any(|&(prev, _)| prev == id)
NodesHasId(ns, id) == \E i \in 1..Len(ns) : ns[i].id = id

\* variant: the content is stored without the location field
extractNodeNoLoc(ns, pos, id, content, page, ts) ==
    IF ~NodesHasId(ns, id)
    THEN Append(ns, [id |-> id, content |-> content])
    ELSE ns

\* the Meta::Node arm of extract
extractNode(ns, pos, id, content, page, ts) ==
    IF ~NodesHasId(ns, id)
    THEN Append(ns, [id |-> id,
                     content |-> push_field_loc(content,
                         LocationEncode(page, PointTransform(pos, ts)))])
    ELSE ns

\* variant: the group's transform is composed before its translation
RECURSIVE extractTransformFirst(_, _, _, _)
extractTransformFirst(ns, frame, page, ts) ==
    IF frame = <<>> THEN ns
    ELSE LET pos == Head(frame).pos
             element == Head(frame).element
             ns1 == CASE element.type = "group" ->
                            extractTransformFirst(ns, element.frame, page,
                                pre_concat(
                                    pre_concat(ts, element.transform),
                                    TransformTranslate(pos[1], pos[2])))
                       [] element.type = "node" ->
                            extractNode(ns, pos, element.id, element.content,
                                        page, ts)
                       [] OTHER -> ns
         IN extractTransformFirst(ns1, Tail(frame), page, ts)

\* Introspector::extract: the node index after walking frame
RECURSIVE extract(_, _, _, _)
extract(ns, frame, page, ts) ==
    IF frame = <<>> THEN ns
    ELSE LET pos == Head(frame).pos
             element == Head(frame).element
             ns1 == CASE element.type = "group" ->
                            extract(ns, element.frame, page,
                                pre_concat(
                                    pre_concat(ts,
                                        TransformTranslate(pos[1], pos[2])),
                                    element.transform))
                       [] element.type = "node" ->
                            extractNode(ns, pos, element.id, element.content,
                                        page, ts)
                       [] OTHER -> ns
         IN extract(ns1, Tail(frame), page, ts)

\* the page loop of update, from page index i (1-based) on
RECURSIVE extractPages(_, _, _)
extractPages(ns, pages, i) ==
    IF i > Len(pages) THEN ns
    ELSE extractPages(extract(ns, pages[i], i, TransformIdentity), pages, i + 1)

\* variant: the index is not cleared
NodesKept(ns) == ns

\* self.nodes.clear() at the start of update
NodesClear(ns) == <<>>

\* update, lines 131-136: the rebuilt node index
updateNodes(ns, doc) == extractPages(NodesClear(ns), doc, 1)

\* variant: the matches are collected in reverse index order
locate_implReversed(ns, selector) ==
    LET r == SelectSeq(ns, LAMBDA n : SelectorMatches(selector, n.content))
    IN [i \in 1..Len(r) |-> r[Len(r) + 1 - i]]

\* Introspector::locate_impl
locate_impl(ns, selector) ==
    SelectSeq(ns, LAMBDA n : SelectorMatches(selector, n.content))

\* variant: only the number of matches is compared
QueryStableCount(ns, query) ==
    Len(locate_impl(ns, query[1])) = query[2][1]

\* the test of update's query loop (lines 140-141): TRUE when the query's
\* result over ns still has the recorded hash
QueryStable(ns, query) == hash128(locate_impl(ns, query[1])) = query[2]

\* variant: the loop runs over self.queries after the take, which is empty
updateCheckAfterTake(ns, qs) == TRUE

\* variant: only the first taken query is compared
updateCheckFirstOnly(ns, qs) ==
    IF qs = <<>> THEN TRUE ELSE QueryStable(ns, Head(qs))

\* update, lines 139-146: the loop over the taken queries, which returns
\* false at the first query whose hash differs
RECURSIVE updateCheck(_, _)
updateCheck(ns, qs) ==
    IF qs = <<>> THEN TRUE
    ELSE IF ~QueryStable(ns, Head(qs)) THEN FALSE
    ELSE updateCheck(ns, Tail(qs))

\* variant: the queries are read without being taken
QueriesKept(qs) == qs

\* std::mem::take(&mut self.queries): what is left in self.queries
QueriesTaken(qs) == <<>>

\* variant: the duplicate test never finds the selector
QueriesHasNever(qs, selector) == FALSE

\* queries.iter().any(|(prev, _)| prev == &selector)
QueriesHas(qs, selector) == \E i \in 1..Len(qs) : qs[i][1] = selector

\* Introspector::locate, lines 179-182: the query table after the call
locateRecord(qs, selector, result) ==
    IF ~QueriesHas(qs, selector)
    THEN Append(qs, <<selector, hash128(result)>>)
    ELSE qs

(***************************************************************************)
(* typeset                                                                 *)
(***************************************************************************)
\* the attempt ceiling of line 38
MaxAttempts == 5

\* variant: the ceiling test written with > instead of >=
GiveUpLate(n) == n > MaxAttempts

\* the first operand of the break condition of line 38
GiveUp(n) == n >= MaxAttempts

\* variant: the provider is created once, before the loop
LoopProviderKept(previous) == previous

\* line 28: the provider the loop body creates, whatever the previous
\* pass left in its own
LoopProvider(previous) == StabilityProviderNew

\* variant: reaching the ceiling is reported as an error
typesetReturnErrAtCeiling(doc) ==
    IF iter + 1 >= MaxAttempts
    THEN [tag |-> "err", doc |-> <<>>]
    ELSE [tag |-> "ok", doc |-> doc]

\* line 43: Ok(document)
typesetReturn(doc) == [tag |-> "ok", doc |-> doc]

InitTypeset ==
    /\ pc = "loop"
    /\ iter = 0
    /\ document = <<>>
    /\ provider = StabilityProviderNew
    /\ nodes = IntrospectorNewNodes
    /\ queries = IntrospectorNewQueries
    /\ ret = NoReturn
    /\ layoutCalls = 0
    /\ layoutErrs = 0
    /\ layoutDoc = <<>>
    /\ updateCalls = 0
    /\ updRet = <<>>
    /\ updDoc = <<>>
    /\ updQueries = <<>>
    /\ updPrevNodes = <<>>
    /\ located = {}
    /\ lastLocate = NoLocate
    /\ fpLog = <<>>
    /\ idLog = <<>>
    /\ refFpLog = <<>>
    /\ refIdLog = <<>>
    /\ sites = [t \in CallSites |-> SiteOut(0)]

Init ==
    /\ InitTypeset
    /\ span = SpanCaller(U16({}), U64({}))

\* Lines 27-35: the head of the loop creates a fresh provider and the Vt and
\* calls the layout routine.  The observer either remembers the identify
\* log of the pass that just ended or keeps the one it remembered before.
LayoutCall ==
    /\ pc = "loop"
    /\ pc' = "layout"
    /\ provider' = LoopProvider(provider)
    /\ layoutCalls' = layoutCalls + 1
    /\ fpLog' = <<>>
    /\ idLog' = <<>>
    /\ located' = {}
    /\ lastLocate' = NoLocate
    /\ \E remember \in BOOLEAN :
          IF remember /\ layoutCalls > 0
          THEN refFpLog' = fpLog /\ refIdLog' = idLog
          ELSE UNCHANGED refVars
    /\ UNCHANGED <<iter, document, ret, layoutErrs, layoutDoc, introVars,
                   updVars, span, sites>>

\* Vt::identify (lines 76-78) called by the layout routine with a key whose
\* hash is hash; at most max calls per pass.
Identify(hash, max) ==
    /\ pc = "layout"
    /\ Len(fpLog) < max
    /\ LET r == identify(provider, hash)
       IN /\ provider' = r.map
          /\ fpLog' = Append(fpLog, hash)
          /\ idLog' = Append(idLog, r.id)
    /\ UNCHANGED <<pc, driverVars, introVars, updVars, located, lastLocate,
                   refVars, span, sites>>

\* Vt::locate (lines 81-83) called by the layout routine.
Locate(selector) ==
    /\ pc = "layout"
    /\ LET result == locate_impl(nodes, selector)
       IN /\ queries' = locateRecord(queries, selector, result)
          /\ lastLocate' = [valid |-> TRUE, selector |-> selector,
                            result |-> result]
    /\ located' = located \cup {selector}
    /\ UNCHANGED <<pc, driverVars, nodes, updVars, idVars, refVars, span, sites>>

\* variant: a failed layout is retried
LayoutFailRetry ==
    /\ pc = "layout"
    /\ pc' = "loop"
    /\ layoutErrs' = layoutErrs + 1
    /\ UNCHANGED <<iter, document, ret, layoutCalls, layoutDoc, introVars,
                   updVars, idVars, located, lastLocate, refVars, span, sites>>

\* Line 35: the layout routine fails; `?` returns the error from typeset.
LayoutFail ==
    /\ pc = "layout"
    /\ pc' = "failed"
    /\ ret' = [tag |-> "err", doc |-> <<>>]
    /\ layoutErrs' = layoutErrs + 1
    /\ UNCHANGED <<iter, document, layoutCalls, layoutDoc, introVars, updVars, idVars,
                   located, lastLocate, refVars, span, sites>>

\* Lines 35-43: the layout routine returns doc; iter is incremented; at the
\* ceiling the loop breaks without calling update, otherwise update rebuilds
\* the index, takes the queries and decides whether the loop breaks.
LayoutOk(doc) ==
    /\ pc = "layout"
    /\ document' = doc
    /\ layoutDoc' = doc
    /\ iter' = iter + 1
    /\ IF GiveUp(iter + 1)
       THEN /\ pc' = "done"
            /\ ret' = typesetReturn(doc)
            /\ UNCHANGED <<introVars, updVars>>
       ELSE LET ns == updateNodes(nodes, doc)
                stable == updateCheck(ns, queries)
            IN /\ nodes' = ns
               /\ queries' = QueriesTaken(queries)
               /\ updateCalls' = updateCalls + 1
               /\ updRet' = Append(updRet, stable)
               /\ updDoc' = doc
               /\ updQueries' = queries
               /\ updPrevNodes' = nodes
               /\ pc' = IF stable THEN "done" ELSE "loop"
               /\ ret' = IF stable THEN typesetReturn(doc) ELSE ret
    /\ UNCHANGED <<layoutCalls, layoutErrs, idVars, located, lastLocate, refVars,
                   span, sites>>

\* the driver specification
Next ==
    \/ LayoutCall
    \/ \E hash \in Fingerprints : Identify(hash, MaxIdentify)
    \/ \E selector \in Selectors : Locate(selector)
    \/ \E doc \in Docs : LayoutOk(doc)
    \/ LayoutFail

Spec == Init /\ [][Next]_vars

\* the provider specification: a layout routine that identifies up to
\* MaxIdentifyProv call sites per pass and produces few documents
NextProv ==
    \/ LayoutCall
    \/ \E hash \in Fingerprints : Identify(hash, MaxIdentifyProv)
    \/ \E selector \in SelectorsProv : Locate(selector)
    \/ \E doc \in DocsProv : LayoutOk(doc)
    \/ LayoutFail

SpecProv == Init /\ [][NextProv]_vars

(***************************************************************************)
(* Call sites of one layout pass that call identify concurrently.  A call  *)
(* is two steps: it reads the slot of its fingerprint (lines 108-109),     *)
(* then stores the slot plus one and returns the id (lines 110-111).       *)
(* identify takes &mut self (lines 76 and 107), so a call site can enter   *)
(* only while no other call site holds the provider.                       *)
(***************************************************************************)
\* variant: the provider is handed out as a shared reference
ProviderBorrowableShared == TRUE

\* the exclusive borrow of &mut self: no call site is inside identify
ProviderBorrowable == \A t \in CallSites : sites[t].pc = "out"

\* lines 108-109: the call site enters identify and reads the slot
SiteEnter(t, hash) ==
    /\ pc = "layout"
    /\ sites[t].pc = "out"
    /\ ProviderBorrowable
    /\ Len(fpLog) + Cardinality({u \in CallSites : sites[u].pc = "in"})
          < MaxIdentifyConc
    /\ sites' = [sites EXCEPT ![t] =
                    [pc |-> "in", hash |-> hash,
                     slot |-> EntryOrDefault(provider, hash),
                     done |-> sites[t].done]]
    /\ UNCHANGED <<pc, driverVars, introVars, updVars, idVars, located,
                   lastLocate, refVars, span>>

\* lines 110-111: the call site stores the slot plus one and returns the id
SiteLeave(t) ==
    /\ pc = "layout"
    /\ sites[t].pc = "in"
    /\ LET hash == sites[t].hash
           slot == sites[t].slot
       IN /\ provider' = [k \in (DOMAIN provider) \cup {hash} |->
                             IF k = hash THEN slot + 1 ELSE provider[k]]
          /\ fpLog' = Append(fpLog, hash)
          /\ idLog' = Append(idLog, StableId(hash, slot))
    /\ sites' = [sites EXCEPT ![t] = SiteOut(sites[t].done + 1)]
    /\ UNCHANGED <<pc, driverVars, introVars, updVars, located, lastLocate,
                   refVars, span>>

\* the layout routine returns once its call sites are done
LayoutOkSites(doc) ==
    /\ \A t \in CallSites : sites[t].pc = "out"
    /\ LayoutOk(doc)

NextConc ==
    \/ LayoutCall
    \/ \E t \in CallSites, hash \in Fingerprints : SiteEnter(t, hash)
    \/ \E t \in CallSites : SiteLeave(t)
    \/ \E doc \in DocsProv : LayoutOkSites(doc)

SpecConc == Init /\ [][NextConc]_vars

(***************************************************************************)
(* A caller of Span: it holds a source id and a number, calls Span::new    *)
(* with them and Span::detached, and reads the accessors of the span that  *)
(* new returned.                                                           *)
(***************************************************************************)
InitSpan ==
    /\ InitTypeset
    /\ \E id \in SpanIds, number \in SpanNumbers :
          span = SpanCaller(id, number)

\* Span::new(id, number), lines 78-86
CallSpanNew ==
    /\ span.pc = "args"
    /\ span' = [span EXCEPT !.new = SpanNew(span.id, span.number),
                            !.pc = IF SpanNew(span.id, span.number).tag = "ok"
                                   THEN "built" ELSE "panicked"]
    /\ UNCHANGED typesetVars

\* Span::detached(), lines 89-91
CallSpanDetached ==
    /\ span.pc \in {"args", "built"}
    /\ span.detached.tag = "none"
    /\ span' = [span EXCEPT !.detached = SpanDetached]
    /\ UNCHANGED typesetVars

\* span.source(), lines 94-96
CallSpanSource ==
    /\ span.pc = "built"
    /\ ~span.sourceRead
    /\ span' = [span EXCEPT !.source = SpanSource(span.new.bits),
                            !.sourceRead = TRUE]
    /\ UNCHANGED typesetVars

\* span.number(), lines 99-101
CallSpanNumber ==
    /\ span.pc = "built"
    /\ ~span.numRead
    /\ span' = [span EXCEPT !.num = SpanNumber(span.new.bits),
                            !.numRead = TRUE]
    /\ UNCHANGED typesetVars

NextSpan ==
    \/ CallSpanNew
    \/ CallSpanDetached
    \/ CallSpanSource
    \/ CallSpanNumber

SpecSpan == InitSpan /\ [][NextSpan]_vars

(***************************************************************************)
(* Properties                                                              *)
(***************************************************************************)
Last(seq) == seq[Len(seq)]

\* the node index update builds from doc, starting from an emptied index
IndexOf(doc) == updateNodes(<<>>, doc)

\* C1: a typeset call that returns a document has invoked layout at least
\* once and at most 5 times, layout is never invoked a 6th time, and when
\* every update of the call returned false layout was invoked exactly 5
\* times.
C1_LayoutAtMostFive ==
    /\ layoutCalls <= 5
    /\ pc = "loop" => layoutCalls < 5
    /\ pc = "done" => layoutCalls >= 1
    /\ (pc = "done" /\ \A i \in 1..Len(updRet) : ~updRet[i])
          => layoutCalls = 5

C1_Witness ==
    /\ pc = "done"
    /\ layoutCalls = 5
    /\ Len(updRet) = 4
    /\ \A i \in 1..Len(updRet) : ~updRet[i]

\* every selector located during the pass that ends has the same ordered
\* result over the index of the new document as over the index of the
\* previous pass's document (the empty index in pass 1)
PassesAgree(previousDoc, newDoc) ==
    \A selector \in located :
        locate_impl(IndexOf(newDoc), selector)
            = locate_impl(IndexOf(previousDoc), selector)

\* C2: when layout returns in pass n, typeset returns if the passes n-1 and
\* n agree on every selector located during pass n, and if it returns then
\* they agree or n = 5; otherwise it runs another pass.
C2_StopsOnAgreement ==
    [][(pc = "layout" /\ pc' \in {"loop", "done"}) =>
          /\ PassesAgree(document, document') => pc' = "done"
          /\ pc' = "done" => (PassesAgree(document, document') \/ iter' = 5)
          /\ pc' = "loop" => iter' < 5]_vars

C2_Witness ==
    /\ pc = "done"
    /\ iter = 3
    /\ updRet = <<FALSE, FALSE, TRUE>>
    /\ located = Selectors
    /\ lastLocate.result # <<>>

\* C3: a layout failure ends the call at once: there is exactly one failure,
\* typeset has returned the error and no document, update has run for the
\* earlier passes only, and no step follows.
C3_FailurePropagates ==
    [][/\ layoutErrs = 0
       /\ layoutErrs' > 0 =>
            /\ layoutErrs' = 1
            /\ pc' = "failed"
            /\ ret' = [tag |-> "err", doc |-> <<>>]
            /\ layoutCalls' = layoutCalls
            /\ updateCalls' = updateCalls
            /\ updateCalls' = layoutCalls' - 1
            /\ nodes' = nodes]_vars

C3_Witness ==
    /\ pc = "failed"
    /\ layoutCalls = 5
    /\ updateCalls = 4
    /\ ret.tag = "err"

\* C4: typeset returns an error only when a layout invocation failed, and a
\* successful return carries the document of the latest layout invocation.
C4_ReturnsLastDocument ==
    /\ pc = "done" => (layoutErrs = 0 /\ ret = [tag |-> "ok", doc |-> layoutDoc])
    /\ ret.tag = "err" => layoutErrs > 0
    /\ (pc = "done" /\ iter = 5) => ret.tag = "ok"

C4_Witness ==
    /\ pc = "done"
    /\ iter = 5
    /\ \A i \in 1..Len(updRet) : ~updRet[i]
    /\ ret.tag = "ok"
    /\ ret.doc = DocNested
    /\ updDoc = DocAB

\* number of identify calls with the fingerprint of call i made before it
EarlierCalls(log, i) == Cardinality({j \in 1..(i - 1) : log[j] = log[i]})

\* C5: within a pass, the call number i of identify returns its fingerprint
\* paired with the number of earlier calls of the pass that had the same
\* fingerprint; the calls 1, 1, 2, 1 return the slots 0, 1, 0, 2.
C5_IdentifySlots ==
    /\ Len(idLog) = Len(fpLog)
    /\ \A i \in 1..Len(fpLog) :
          idLog[i] = <<fpLog[i], EarlierCalls(fpLog, i)>>
    /\ fpLog = <<1, 1, 2, 1>> =>
          idLog = << <<1, 0>>, <<1, 1>>, <<2, 0>>, <<1, 2>> >>

C5_Witness ==
    /\ pc = "layout"
    /\ fpLog = <<1, 1, 2, 1>>
    /\ idLog = << <<1, 0>>, <<1, 1>>, <<2, 0>>, <<1, 2>> >>

\* C6: a pass starts with an empty provider, and whenever the current pass
\* and a remembered earlier pass of the call issued the same first n
\* fingerprints, they received the same first n StableIds.
C6_ReproducibleAcrossPasses ==
    /\ (pc = "layout" /\ fpLog = <<>>) => provider = <<>>
    /\ \A n \in 1..Len(fpLog) :
          (n <= Len(refFpLog) /\ SubSeq(fpLog, 1, n) = SubSeq(refFpLog, 1, n))
              => SubSeq(idLog, 1, n) = SubSeq(refIdLog, 1, n)

C6_Witness ==
    /\ layoutCalls = 4
    /\ fpLog = <<1, 2, 1, 1>>
    /\ refFpLog = fpLog
    /\ refIdLog = idLog
    /\ idLog[4] = <<1, 2>>

\* the node metadata leaves of a frame, in depth-first order
RECURSIVE FrameLeaves(_, _)
FrameLeaves(frame, page) ==
    IF frame = <<>> THEN <<>>
    ELSE LET element == Head(frame).element
             here == IF element.type = "node"
                     THEN << [id |-> element.id, content |-> element.content,
                              page |-> page] >>
                     ELSE IF element.type = "group"
                     THEN FrameLeaves(element.frame, page)
                     ELSE <<>>
         IN here \o FrameLeaves(Tail(frame), page)

\* the node metadata leaves of a document, pages in page order
RECURSIVE DocLeavesFrom(_, _)
DocLeavesFrom(doc, i) ==
    IF i > Len(doc) THEN <<>>
    ELSE FrameLeaves(doc[i], i) \o DocLeavesFrom(doc, i + 1)

DocLeaves(doc) == DocLeavesFrom(doc, 1)

\* position of the first leaf with the id
FirstLeaf(leaves, id) ==
    CHOOSE k \in 1..Len(leaves) :
        /\ leaves[k].id = id
        /\ \A m \in 1..(k - 1) : leaves[m].id # id

\* C7: after an update the node index has one entry for each StableId on a
\* node leaf of the document it was given and no other entry, ordered by the
\* first occurrence of the ids in the depth-first walk of the pages, each
\* entry holding the content and the page of that first occurrence.
C7_IndexIsFirstOccurrences ==
    updateCalls > 0 =>
        LET leaves == DocLeaves(updDoc)
        IN /\ \A i \in 1..Len(nodes) :
                 \E k \in 1..Len(leaves) : leaves[k].id = nodes[i].id
           /\ \A k \in 1..Len(leaves) :
                 \E i \in 1..Len(nodes) : nodes[i].id = leaves[k].id
           /\ \A i, j \in 1..Len(nodes) :
                 i < j =>
                    /\ nodes[i].id # nodes[j].id
                    /\ FirstLeaf(leaves, nodes[i].id)
                          < FirstLeaf(leaves, nodes[j].id)
           /\ \A i \in 1..Len(nodes) :
                 LET leaf == leaves[FirstLeaf(leaves, nodes[i].id)]
                 IN /\ nodes[i].content.kind = leaf.content.kind
                    /\ nodes[i].content.loc[1] = leaf.page

C7_Witness ==
    /\ updateCalls = 2
    /\ updDoc = DocNested
    /\ updPrevNodes = IndexOf(DocLate)
    /\ Len(nodes) = 3
    /\ Len(DocLeaves(updDoc)) = 6

\* position of an entry in the node index
IndexPos(ns, entry) == CHOOSE k \in 1..Len(ns) : ns[k] = entry

\* C8: the result of a locate holds only entries of the node index that the
\* selector matches, holds every such entry once, and keeps index order.
C8_LocateFilters ==
    (pc = "layout" /\ lastLocate.valid) =>
        LET result == lastLocate.result
            selector == lastLocate.selector
        IN /\ \A i \in 1..Len(result) :
                 /\ \E k \in 1..Len(nodes) : nodes[k] = result[i]
                 /\ SelectorMatches(selector, result[i].content)
           /\ \A k \in 1..Len(nodes) :
                 SelectorMatches(selector, nodes[k].content) =>
                    Cardinality({i \in 1..Len(result) :
                                    result[i] = nodes[k]}) = 1
           /\ \A i, j \in 1..Len(result) :
                 i < j => IndexPos(nodes, result[i]) < IndexPos(nodes, result[j])

C8_Witness ==
    /\ pc = "layout"
    /\ lastLocate.valid
    /\ lastLocate.selector = {1}
    /\ Len(nodes) = 3
    /\ Len(lastLocate.result) = 2

SameElements(a, b) ==
    {a[i] : i \in 1..Len(a)} = {b[i] : i \in 1..Len(b)}

\* a taken query whose result has the same entries before and after the
\* update, in a different order
Reordered(query) ==
    LET before == locate_impl(updPrevNodes, query[1])
        after == locate_impl(nodes, query[1])
    IN SameElements(before, after) /\ before # after

\* C9: the queries the latest update took are those of the selectors located
\* since the update before it, each with the fingerprint of its result over
\* the old index; the update returned true exactly when every one of them
\* has over the new index a result with the recorded fingerprint; it
\* returned true when it took no query, and false when a taken query
\* matches the same entries as before in a different order.
C9_UpdateResult ==
    updateCalls > 0 =>
        /\ Last(updRet) <=>
              \A i \in 1..Len(updQueries) :
                  hash128(locate_impl(nodes, updQueries[i][1]))
                      = updQueries[i][2]
        /\ updQueries = <<>> => Last(updRet)
        /\ \A i \in 1..Len(updQueries) :
              updQueries[i][2]
                  = hash128(locate_impl(updPrevNodes, updQueries[i][1]))
        /\ (pc \in {"loop", "done"} /\ updateCalls = layoutCalls) =>
              {updQueries[i][1] : i \in 1..Len(updQueries)} = located
        /\ (\E i \in 1..Len(updQueries) : Reordered(updQueries[i]))
              => ~Last(updRet)

C9_Witness ==
    /\ updateCalls = 2
    /\ ~Last(updRet)
    /\ Len(updQueries) = 2
    /\ ~Reordered(updQueries[1])
    /\ Reordered(updQueries[2])

\* C10 as stated: every node leaf of the returned Document has a location
\* record under the reserved field.
C10_ReturnedDocumentHasLocations ==
    pc = "done" =>
        \A k \in 1..Len(DocLeaves(ret.doc)) :
            DocLeaves(ret.doc)[k].content.loc # <<>>

\* C10 amended: the location record is attached to the content clones of
\* the node index, every entry of which has one with a page of at least 1;
\* the returned Document is the one layout produced, not touched by update.
C10_LocationsInIndexOnly ==
    /\ \A i \in 1..Len(nodes) :
          /\ Len(nodes[i].content.loc) = 3
          /\ nodes[i].content.loc[1] >= 1
    /\ pc = "done" => ret.doc = layoutDoc

C10_Witness ==
    /\ pc = "done"
    /\ Len(nodes) = 3
    /\ ret.doc = DocNested
    /\ \E k \in 1..Len(DocLeaves(ret.doc)) :
          DocLeaves(ret.doc)[k].content.loc = <<>>

\* the number is at least 2: a bit above bit 0 is set
AtLeastTwo(number) == \E i \in 1..63 : number[i] = 1

\* the number is below 2^48: no bit from bit 48 up is set
BelowTwoPow48(number) == \A i \in 48..63 : number[i] = 0

\* C11: Span::new returns a span exactly when 2 <= number < 2^48 and panics
\* for every other number, whatever the source id.
C11_NewAcceptsFullRange ==
    span.pc \in {"built", "panicked"} =>
        /\ span.new.tag \in {"ok", "panic"}
        /\ span.new.tag = "ok" <=>
              (AtLeastTwo(span.number) /\ BelowTwoPow48(span.number))

C11_Witness ==
    /\ span.pc = "panicked"
    /\ span.number = U64({48})
    /\ span.id = U16({0, 2})

\* C12: a span built by new gives back the source id and the number it was
\* built from, and no other valid pair of arguments builds the same span.
C12_EncodingRoundTrips ==
    span.pc = "built" =>
        /\ span.sourceRead => span.source = span.id
        /\ span.numRead => span.num = span.number
        /\ \A id \in SpanIds, number \in SpanNumbers :
              (SpanNew(id, number).tag = "ok"
                  /\ SpanNew(id, number).bits = span.new.bits)
                 => (id = span.id /\ number = span.number)

C12_Witness ==
    /\ span.pc = "built"
    /\ span.sourceRead
    /\ span.numRead
    /\ span.id = U16({0, 2})
    /\ span.number = U64({1, 3})
    /\ span.source = U16({0, 2})
    /\ span.num = U64({1, 3})

\* C13: the detached span differs from every span new returns, also for
\* source id 0.
C13_DetachedIsDistinct ==
    (span.pc = "built" /\ span.detached.tag # "none") =>
        (span.detached.tag = "ok" /\ span.detached.bits # span.new.bits)

C13_Witness ==
    /\ span.pc = "built"
    /\ span.id = U16({})
    /\ span.number = U64({1})
    /\ span.detached.tag = "ok"

\* C14 as stated: when typeset has returned a document, update has been
\* called as often as layout.
C14_UpdateAfterEveryLayout ==
    pc = "done" => updateCalls = layoutCalls

\* C14 amended: update is called once after each layout invocation of the
\* passes 1 to 4 and not after the 5th, so a call that returns a document
\* has made as many update calls as layout calls when it returns before the
\* 5th pass, and 4 update calls for 5 layout calls otherwise.
C14_UpdateExceptAtCeiling ==
    /\ pc = "loop" => updateCalls = layoutCalls
    /\ pc = "layout" => updateCalls = layoutCalls - 1
    /\ (pc = "done" /\ layoutCalls < 5) => updateCalls = layoutCalls
    /\ (pc = "done" /\ layoutCalls = 5) => updateCalls = 4

C14_Witness ==
    /\ pc = "done"
    /\ layoutCalls = 5
    /\ updateCalls = 4
    /\ located # {}

\* C15 as stated: after an update that returned true the query table holds
\* the pairs it held before the call.
C15_TableRetainedOnTrue ==
    (updateCalls > 0 /\ Last(updRet)) => queries = updQueries

\* C15 amended: every update leaves the query table empty, whatever it
\* returns; the pairs it compared are dropped.
C15_TableEmptiedByUpdate ==
    [][updateCalls' # updateCalls => queries' = <<>>]_vars

C15_Witness ==
    /\ updateCalls > 0
    /\ Last(updRet)
    /\ Len(updQueries) = 2
    /\ queries = <<>>

\* what holds inside pass n: the index is the one built from the document
\* of pass n-1, every locate was answered from it, and a selector located
\* before has the result it had the first time
AnsweredFromPreviousPass ==
    /\ nodes = IndexOf(document)
    /\ layoutCalls = 1 => nodes = <<>>
    /\ lastLocate.valid =>
          /\ lastLocate.result
                = locate_impl(IndexOf(document), lastLocate.selector)
          /\ layoutCalls = 1 => lastLocate.result = <<>>
          /\ \A i \in 1..Len(queries) :
                queries[i][1] = lastLocate.selector =>
                    queries[i][2] = hash128(lastLocate.result)

\* C16: at every moment of a pass, after any number of identify and locate
\* calls, the index is the one update built from the previous pass's
\* document (the empty index in pass 1) and every locate was answered from
\* it, a repeated selector with the result of its first locate.
C16_IndexOfPreviousPass ==
    pc = "layout" => AnsweredFromPreviousPass

C16_Witness ==
    /\ pc = "layout"
    /\ layoutCalls = 3
    /\ document = DocNested
    /\ lastLocate.valid
    /\ lastLocate.selector = {1}
    /\ Len(lastLocate.result) = 2
    /\ Len(queries) = 2
    /\ queries[1][1] = {1}
    /\ fpLog # <<>>

NoDuplicateSelector(qs) ==
    \A i, j \in 1..Len(qs) : i # j => qs[i][1] # qs[j][1]

\* C17: the query table holds at most one entry per selector; a locate of a
\* selector without an entry appends the selector with the fingerprint of
\* its result, a locate of a selector with an entry leaves the table as it
\* is, and only an update removes entries.
C17_OneEntryPerSelector ==
    [][/\ NoDuplicateSelector(queries')
       /\ Len(queries') > Len(queries) =>
             /\ ~\E i \in 1..Len(queries) :
                    queries[i][1] = lastLocate'.selector
             /\ queries' = Append(queries,
                    <<lastLocate'.selector, hash128(lastLocate'.result)>>)
       /\ (pc = "layout" /\ pc' = "layout" /\ lastLocate'.valid
             /\ \E i \in 1..Len(queries) :
                    queries[i][1] = lastLocate'.selector)
            => queries' = queries
       /\ Len(queries') < Len(queries) => updateCalls' # updateCalls]_vars

C17_Witness ==
    /\ pc = "layout"
    /\ layoutCalls = 2
    /\ nodes # <<>>
    /\ Len(queries) = 2
    /\ lastLocate.selector = queries[1][1]
    /\ queries[1][2] # queries[2][2]

\* the completed identify calls of the pass that had fingerprint f
CompletedCalls(f) == {i \in 1..Len(fpLog) : fpLog[i] = f}

\* C18: whatever the interleaving of the call sites, the completed identify
\* calls with a fingerprint have returned the slots 0..N-1, each once,
\* where N is their number, and the counter stored for it is N.
C18_NoLostIncrement ==
    \A f \in Fingerprints :
        LET N == Cardinality(CompletedCalls(f))
        IN /\ {idLog[i][2] : i \in CompletedCalls(f)} = 0..(N - 1)
           /\ \A i \in CompletedCalls(f) : idLog[i][1] = f
           /\ EntryOrDefault(provider, f) = N

C18_Witness ==
    /\ pc = "layout"
    /\ fpLog = <<1, 1>>
    /\ idLog = << <<1, 0>>, <<1, 1>> >>
    /\ sites[1].done = 1
    /\ sites[2].done = 1
    /\ sites[2].pc = "in"
    /\ sites[2].hash = 1
    /\ sites[2].slot = 2

\* a point carried out of its enclosing groups, innermost group first: the
\* group's own transform is applied, then the group's position is added
RECURSIVE MapOut(_, _)
MapOut(point, groups) ==
    IF groups = <<>> THEN point
    ELSE LET inner == groups[Len(groups)]
             moved == PointTransform(point, inner.transform)
         IN MapOut(Point(moved[1] + inner.pos[1], moved[2] + inner.pos[2]),
                   SubSeq(groups, 1, Len(groups) - 1))

\* the node leaves of a frame in depth-first order, each with its page and
\* its position in page coordinates; groups are the enclosing groups,
\* outermost first
RECURSIVE FramePlaces(_, _, _)
FramePlaces(frame, page, groups) ==
    IF frame = <<>> THEN <<>>
    ELSE LET pos == Head(frame).pos
             element == Head(frame).element
             here == IF element.type = "node"
                     THEN << [id |-> element.id, page |-> page,
                              pos |-> MapOut(pos, groups)] >>
                     ELSE IF element.type = "group"
                     THEN FramePlaces(element.frame, page,
                              Append(groups, [pos |-> pos,
                                  transform |-> element.transform]))
                     ELSE <<>>
         IN here \o FramePlaces(Tail(frame), page, groups)

RECURSIVE DocPlacesFrom(_, _)
DocPlacesFrom(doc, i) ==
    IF i > Len(doc) THEN <<>>
    ELSE FramePlaces(doc[i], i, <<>>) \o DocPlacesFrom(doc, i + 1)

DocPlaces(doc) == DocPlacesFrom(doc, 1)

\* C19: the location of every index entry is the 1-based page of the first
\* occurrence of its id and the position of that occurrence carried out of
\* its enclosing groups, each group applying its own transform and then the
\* translation by its position.
C19_LocationOfFirstOccurrence ==
    updateCalls > 0 =>
        LET places == DocPlaces(updDoc)
        IN \A i \in 1..Len(nodes) :
              LET place == places[FirstLeaf(places, nodes[i].id)]
              IN nodes[i].content.loc
                    = <<place.page, place.pos[1], place.pos[2]>>

C19_Witness ==
    /\ updateCalls > 0
    /\ updDoc = DocNested
    /\ nodes[1].id = IdA
    /\ nodes[1].content.loc = <<1, 4, 1>>
    /\ nodes[2].id = IdC
    /\ nodes[2].content.loc = <<1, 2, 1>>
    /\ nodes[3].id = IdB
    /\ nodes[3].content.loc = <<1, 0, 2>>

\* C20: when a selector located during the first pass matches an entry of
\* the index built from the first pass's document, the first update returns
\* false and typeset goes on to a second pass; no document some located
\* selector matches is returned after a single pass.
C20_NoSinglePassWithMatches ==
    (updateCalls = 1 /\ layoutCalls = 1
        /\ \E selector \in located :
              locate_impl(IndexOf(layoutDoc), selector) # <<>>)
       => (updRet = <<FALSE>> /\ pc = "loop")

C20_Witness ==
    /\ updateCalls = 1
    /\ layoutCalls = 1
    /\ located = {{1, 2}}
    /\ layoutDoc = DocLate
    /\ pc = "loop"
====
